---- MODULE Spec2Model ----
(***************************************************************************)
(* Change-to-commit coordination core of loom-sync-obsidian.               *)
(*                                                                         *)
(* SyncManager (sync-manager.ts) owns a FIFO queue of SyncOperations, a    *)
(* boolean drain guard, a status and a last-sync time.  Every Gateway call *)
(* (GitService.commit / push / pull / getStatus / testConnection) and the  *)
(* back-off sleep of RetryHelper.retry is an await: the code that runs     *)
(* between two awaits is one atomic action of the model, and the actions   *)
(* of different invocations interleave freely.                             *)
(*                                                                         *)
(* FileWatcher (file-watcher.ts) registers four vault event handlers and   *)
(* hands every event to one debounced function (utils.ts debounce); the    *)
(* host's timeout firing is an action of its own.                          *)
(***************************************************************************)
EXTENDS Integers, Sequences, FiniteSets, TLC

\* ---------------------------------------------------------------- bounds
MaxOps      == 3   \* file-change events delivered to handleFileChange
MaxHandlers == 2   \* handleFileChange invocations that may be suspended
MaxCalls    == 1   \* manual sync / pull / push / initialize invocations suspended
MaxClock    == 1   \* lastSyncTime saturates here
MaxEvents   == 3   \* vault events delivered to the watcher's handlers
MaxSubscribers == 2  \* callbacks given to onStatusChange
MaxEndToEndEvents == 2  \* vault events of a run of watcher and coordinator together
MaxRetryArg == 3   \* the largest maxRetries RetryHelper.retry is called with

\* ------------------------------------------------------ program constants
InnerMaxRetries == 2   \* RetryHelper.retry(..., 2, 1000)
OuterMaxRetries == 3   \* operation.retries < 3
DebounceDelay       == 500  \* debounce(..., 500) in file-watcher.ts
DefaultDebounceDelay == 500  \* DEFAULT_SETTINGS.debounceDelay

Handlers == 1..MaxHandlers
Calls    == 1..MaxCalls
OpIds    == 1..MaxOps
Subscribers == 1..MaxSubscribers

SyncStatus == {"idle", "syncing", "error", "offline"}

VARIABLES
    status,            \* SyncManager.status
    lastSyncTime,      \* SyncManager.lastSyncTime: 0 is null, else a clock reading
    syncQueue,         \* SyncManager.syncQueue
    isProcessingQueue, \* SyncManager.isProcessingQueue
    settings,          \* SyncManager.settings (the fields the coordinator reads)
    drain,             \* per handleFileChange invocation: position in processQueue
    calls,             \* per direct invocation: position in manual sync / pull / push / initialize
    nextId,            \* history: number of operations enqueued so far
    commitLog,         \* history: ids of queued operations in the order their commit was created
    noops,             \* history: ids of operations that completed with nothing staged
    dropped,           \* history: the operations dropped after the outer cap, as they were then
    shown,             \* what the status subscribers were last told: status and message
    statusCallbacks,   \* SyncManager.statusCallbacks: the subscribers, in registration order
    announce,          \* updateStatus in progress: the position of its forEach, with
                       \* history: the subscribers at its start and those called so far
    delivered,         \* history: per subscriber, the status it was last called with
    snapshot,          \* history: the settings in force when the latest drain started
    repoExists,        \* the vault: whether it holds a repository
    isActive,          \* FileWatcher.isActive
    callback,          \* FileWatcher.callback: TRUE when set, FALSE when null
    eventRefs,         \* FileWatcher.eventRefs: the vault events a handler is registered for
    excludePatterns,   \* FileWatcher.settings.excludePatterns
    debounceDelay,     \* FileWatcher.settings.debounceDelay
    timers,            \* the host's pending timeouts set by debounce, oldest first: their arguments
    window,            \* history: the events handed to debounce since a timeout last fired,
                       \* each with whether stop() was called after it
    emitted,           \* history: the operations handed to the watcher's callback, each
                       \* with the size of its window, the accepted files of the
                       \* window and whether its event was observed before a stop()
    eventCount,        \* history: number of vault events delivered
    template,          \* settings.commitMessageTemplate, as GitService reads it
    enqueued,          \* history: the file and the action of each operation, by id
    commitCalls,       \* history: the gitService.commit calls of the drains that
                       \* returned: operation, message, paths, result
    retry              \* one run of RetryHelper.retry: its arguments, its position
                       \* and the history of its invocations and waits

\* what the coordinator never writes: the vault and the watcher
watcherVars == <<isActive, callback, eventRefs, excludePatterns, debounceDelay, timers,
                 window, emitted, eventCount>>

\* the commit message template and the history of the commit calls
messageVars == <<template, enqueued, commitCalls>>

\* the subscribers and the announcement in progress
subscriberVars == <<statusCallbacks, announce, delivered>>

\* what the watcher never writes
coordinatorVars == <<status, lastSyncTime, syncQueue, isProcessingQueue, settings,
                     drain, calls, nextId, commitLog, noops, dropped, shown>>

vars == <<status, lastSyncTime, syncQueue, isProcessingQueue, settings,
          drain, calls, nextId, commitLog, noops, dropped, shown, repoExists,
          statusCallbacks, announce, delivered, snapshot,
          isActive, callback, eventRefs, excludePatterns, debounceDelay, timers,
          window, emitted, eventCount, template, enqueued, commitCalls, retry>>

NoOp == [id |-> 0, retries |-> 0, pops |-> 0, attempts |-> 0]

IdleDrain == [pc |-> "idle", op |-> NoOp, attempt |-> 0]

\* interface SyncOperation {file, action, timestamp, retries}; id stands for
\* the enqueue order (timestamp).  The file and the action only choose what
\* the commit stages and its message; the queue, the retries and the status
\* never read them, and they are left out here.  pops and attempts are
\* history fields: how often the operation was shifted off the queue, and
\* how many Gateway commit calls were made for it.
NewOperation(id) ==
    [id |-> id, retries |-> 0, pops |-> 0, attempts |-> 0]

\* new Date(): a reading of a clock that never goes back
Now(t) == IF t < MaxClock THEN t + 1 ELSE MaxClock

\* no drain has started yet
NoSnapshot == [remoteUrl |-> FALSE, autoPush |-> FALSE]

\* updateStatus is not running
NotAnnouncing == [active |-> FALSE, k |-> 0, len |-> 0, atStart |-> <<>>, called |-> <<>>]

\* nothing was announced yet
NoAnnouncement == [status |-> "none", message |-> "none"]

\* SyncManager.updateStatus: set the status and tell every subscriber
UpdateStatus(s, message) ==
    /\ status' = s
    /\ shown' = [status |-> s, message |-> message]

\* RetryHelper.retry is not running
NoRetry == [pc |-> "idle", maxRetries |-> 0, baseDelay |-> 0, attempt |-> 0,
            invoked |-> <<>>, waits |-> <<>>, result |-> [none |-> TRUE]]

\* the coordinator after its constructor (sync-manager.ts 13-23)
InitCoordinator ==
    /\ status = "idle"
    /\ lastSyncTime = 0
    /\ syncQueue = <<>>
    /\ isProcessingQueue = FALSE
    /\ settings \in [remoteUrl : BOOLEAN, autoPush : BOOLEAN]
    /\ drain = [h \in Handlers |-> IdleDrain]
    /\ calls = [c \in Calls |-> "idle"]
    /\ nextId = 0
    /\ commitLog = <<>>
    /\ noops = {}
    /\ dropped = {}
    /\ shown = NoAnnouncement
    /\ statusCallbacks = <<>>
    /\ announce = NotAnnouncing
    /\ delivered = [x \in Subscribers |-> "none"]
    /\ snapshot = NoSnapshot
    /\ enqueued = <<>>
    /\ commitCalls = <<>>
    /\ retry = NoRetry

\* DEFAULT_SETTINGS.commitMessageTemplate: '{action}: {filename}'
DefaultTemplate == <<"{", "a", "c", "t", "i", "o", "n", "}", ":", " ", "{", "f", "i", "l", "e", "n", "a", "m", "e", "}">>

\* GitService after its constructor: the template of the settings it was given
InitGateway(t) == template = t

\* the watcher after its constructor (file-watcher.ts 10-17), with the
\* exclusion patterns of the settings it was given, and no timeout pending
InitFileWatcher(patterns) ==
    /\ isActive = FALSE
    /\ callback = FALSE
    /\ eventRefs = <<>>
    /\ excludePatterns = patterns
    /\ debounceDelay = DefaultDebounceDelay
    /\ timers = <<>>
    /\ window = <<>>
    /\ emitted = <<>>
    /\ eventCount = 0

\* a vault that holds a repository, no exclusion patterns
Init ==
    /\ InitCoordinator
    /\ InitGateway(DefaultTemplate)
    /\ repoExists = TRUE
    /\ InitFileWatcher(<<>>)

\* ------------------------------------------------------------ the Gateway
\* Outcomes of one GitService call: every call terminates, and either
\* returns or throws.  commit returns without creating a commit when nothing
\* is staged (git-service.ts:90).
CommitResults == {"committed", "nothing", "fail"}
CallResults   == {"ok", "fail"}
StatusResults == {"clean", "dirty", "fail"}

\* Gateway calls in flight: commit, push, pull and status query
GatewayInFlight ==
    Cardinality({h \in Handlers : drain[h].pc \in {"commit", "push"}})
  + Cardinality({c \in Calls :
        calls[c] \in {"manualStatus", "manualCommit", "manualPush", "pull", "push"}})

\* ------------------------------------------------------- the drain loop
QueueGuardNoFlag(q) == Len(q) = 0

\* processQueue line 172: the early return
QueueGuard(q) == isProcessingQueue \/ Len(q) = 0

WantsPushAlways == TRUE

\* processQueue line 187: the trailing push is wanted
WantsPush == settings.autoPush /\ settings.remoteUrl

\* processQueue lines 182-183 with processSyncOperation up to its first
\* Gateway call: shift the head and start attempt 0 of RetryHelper.retry
StartOperation(h, q) ==
    /\ syncQueue' = Tail(q)
    /\ drain' = [drain EXCEPT ![h] =
          [pc |-> "commit",
           op |-> [Head(q) EXCEPT !.pops = @ + 1, !.attempts = @ + 1],
           attempt |-> 0]]

ReleasedGuardKept == isProcessingQueue

\* processQueue line 206, in its finally: this.isProcessingQueue = false
ReleasedGuard == FALSE

\* processQueue lines 196-197 and 206: the drain ends normally
FinishDrain(h) ==
    /\ lastSyncTime' = Now(lastSyncTime)
    /\ UpdateStatus("idle", "Sync completed")
    /\ isProcessingQueue' = ReleasedGuard
    /\ drain' = [drain EXCEPT ![h] = IdleDrain]

\* processQueue lines 181-197 after an operation completed: next turn of the
\* while loop, or the trailing push, or the end of the drain
ContinueDrain(h) ==
    IF Len(syncQueue) > 0
    THEN /\ StartOperation(h, syncQueue)
         /\ UNCHANGED <<status, shown, lastSyncTime, isProcessingQueue>>
    ELSE IF WantsPush
         THEN /\ drain' = [drain EXCEPT ![h] = [pc |-> "push", op |-> NoOp, attempt |-> 0]]
              /\ UNCHANGED <<status, shown, lastSyncTime, isProcessingQueue, syncQueue>>
         ELSE /\ FinishDrain(h)
              /\ UNCHANGED syncQueue

RequeueAtBack(op, q) == Append(q, op)

\* processSyncOperation line 229: where a failed operation goes back
Requeue(op, q) == <<op>> \o q

FailedOperationSameCount(op) == op

\* processSyncOperation line 225: operation.retries++
FailedOperation(op) == [op EXCEPT !.retries = @ + 1]

HasOuterAttemptsLeftOffByOne(op) == op.retries <= OuterMaxRetries

\* processSyncOperation line 227
HasOuterAttemptsLeft(op) == op.retries < OuterMaxRetries

IsLastAttemptOneEarly(attempt, maxRetries) == attempt = maxRetries - 1

IsLastAttemptNoRetry(attempt, maxRetries) == attempt = 0

\* RetryHelper.retry line 113: the attempt was the last one
IsLastAttempt(attempt, maxRetries) == attempt = maxRetries

\* Invocations are interchangeable: a new one takes the first slot that is
\* not held by a suspended invocation.
FreeHandler(h) ==
    /\ drain[h].pc = "idle"
    /\ \A g \in Handlers : g < h => drain[g].pc # "idle"

FreeCall(c) ==
    /\ calls[c] = "idle"
    /\ \A d \in Calls : d < c => calls[d] # "idle"

DiscardsEventsNever(s) == FALSE

\* handleFileChange line 65: this.status === 'error' || this.status === 'offline'
DiscardsEvents(s) == s \in {"error", "offline"}

\* handleFileChange: discard when error/offline, else enqueue and call
\* processQueue, which returns at once or becomes the drain
Enqueue(h) ==
    /\ FreeHandler(h)
    /\ nextId < MaxOps
    /\ IF DiscardsEvents(status)
       THEN UNCHANGED <<status, shown, syncQueue, isProcessingQueue, drain, nextId>>
       ELSE /\ nextId' = nextId + 1
            /\ LET q == Append(syncQueue, NewOperation(nextId + 1)) IN
               IF QueueGuard(q)
               THEN /\ syncQueue' = q
                    /\ UNCHANGED <<status, shown, isProcessingQueue, drain>>
               ELSE /\ isProcessingQueue' = TRUE
                    /\ UpdateStatus("syncing", "Processing file changes")
                    /\ StartOperation(h, q)
    /\ UNCHANGED <<lastSyncTime, settings, calls, commitLog, noops, dropped>>

\* handleFileChange called on its own, the watcher left alone
EnqueueAndDrain(h) ==
    /\ Enqueue(h)
    /\ UNCHANGED <<subscriberVars, repoExists, messageVars, retry, watcherVars>>

HandleFileChange(h) ==
    /\ EnqueueAndDrain(h)
    /\ UNCHANGED snapshot

\* the same, with the history of the settings a drain starts under
HandleFileChangeRecorded(h) ==
    /\ EnqueueAndDrain(h)
    /\ snapshot' = IF drain'[h].pc # "idle" THEN settings ELSE snapshot

CommitsAlways(r) == TRUE

\* GitService.commit lines 89-95: with nothing staged it returns before
\* git.commit
Commits(r) == r = "committed"

\* the commit call of the operation in flight returns: the operation is done
CommitReturns(h, r) ==
    /\ drain[h].pc = "commit"
    /\ r \in {"committed", "nothing"}
    /\ IF Commits(r)
       THEN commitLog' = Append(commitLog, drain[h].op.id) /\ UNCHANGED noops
       ELSE noops' = noops \cup {drain[h].op.id} /\ UNCHANGED commitLog
    /\ ContinueDrain(h)
    /\ UNCHANGED <<settings, calls, nextId, dropped>>
    /\ UNCHANGED <<snapshot, subscriberVars, repoExists, template, enqueued, retry, watcherVars>>

CommitSucceeds(h, r) ==
    /\ CommitReturns(h, r)
    /\ UNCHANGED commitCalls

\* the commit call throws and RetryHelper has retries left: back off
CommitFailsRetry(h) ==
    /\ drain[h].pc = "commit"
    /\ ~IsLastAttempt(drain[h].attempt, InnerMaxRetries)
    /\ drain' = [drain EXCEPT ![h].pc = "sleep"]
    /\ UNCHANGED <<status, shown, lastSyncTime, syncQueue, isProcessingQueue, settings,
                   calls, nextId, commitLog, noops, dropped>>
    /\ UNCHANGED <<snapshot, subscriberVars, repoExists, messageVars, retry, watcherVars>>

\* sleep(delay) is over: next attempt of RetryHelper.retry
BackoffElapsed(h) ==
    /\ drain[h].pc = "sleep"
    /\ drain' = [drain EXCEPT ![h].pc = "commit",
                              ![h].attempt = @ + 1,
                              ![h].op.attempts = @ + 1]
    /\ UNCHANGED <<status, shown, lastSyncTime, syncQueue, isProcessingQueue, settings,
                   calls, nextId, commitLog, noops, dropped>>
    /\ UNCHANGED <<snapshot, subscriberVars, repoExists, messageVars, retry, watcherVars>>

\* the commit call throws on the last attempt: RetryHelper.retry throws,
\* processSyncOperation's catch re-queues or drops and rethrows,
\* processQueue's catch sets error and its finally releases the guard
CommitFailsFinal(h) ==
    /\ drain[h].pc = "commit"
    /\ IsLastAttempt(drain[h].attempt, InnerMaxRetries)
    /\ LET op == FailedOperation(drain[h].op) IN
       IF HasOuterAttemptsLeft(op)
       THEN syncQueue' = Requeue(op, syncQueue) /\ UNCHANGED dropped
       ELSE dropped' = dropped \cup {op} /\ UNCHANGED syncQueue
    /\ UpdateStatus("error", "Sync failed")
    /\ isProcessingQueue' = ReleasedGuard
    /\ drain' = [drain EXCEPT ![h] = IdleDrain]
    /\ UNCHANGED <<lastSyncTime, settings, calls, nextId, commitLog, noops>>
    /\ UNCHANGED <<snapshot, subscriberVars, repoExists, messageVars, retry, watcherVars>>

\* the trailing push returns or throws: either way the drain ends normally
\* (TrailingPushDoneRethrow: without the inner try / catch of lines 188-193)
TrailingPushDoneRethrow(h, r) ==
    /\ drain[h].pc = "push"
    /\ r \in CallResults
    /\ IF r = "ok"
       THEN FinishDrain(h)
       ELSE /\ UpdateStatus("error", "Sync failed")
            /\ isProcessingQueue' = FALSE
            /\ drain' = [drain EXCEPT ![h] = IdleDrain]
            /\ UNCHANGED lastSyncTime
    /\ UNCHANGED <<syncQueue, settings, calls, nextId, commitLog, noops, dropped>>
    /\ UNCHANGED <<snapshot, subscriberVars, repoExists, messageVars, retry, watcherVars>>

TrailingPushDone(h, r) ==
    /\ drain[h].pc = "push"
    /\ r \in CallResults
    /\ FinishDrain(h)
    /\ UNCHANGED <<syncQueue, settings, calls, nextId, commitLog, noops, dropped>>
    /\ UNCHANGED <<snapshot, subscriberVars, repoExists, messageVars, retry, watcherVars>>

\* --------------------------------------------------- direct invocations
\* performManualSync up to its first await: short-circuit when syncing,
\* else syncing and the status query
AlreadySyncingNever == FALSE

\* performManualSync line 82: if (this.currentStatus === 'syncing')
AlreadySyncing == status = "syncing"

PerformManualSync(c) ==
    /\ FreeCall(c)
    /\ IF AlreadySyncing
       THEN /\ calls' = [calls EXCEPT ![c] = "returned"]
            /\ UNCHANGED <<status, shown>>
       ELSE /\ UpdateStatus("syncing", "Manual sync started")
            /\ calls' = [calls EXCEPT ![c] = "manualStatus"]
    /\ UNCHANGED <<lastSyncTime, syncQueue, isProcessingQueue, settings, drain,
                   nextId, commitLog, noops, dropped>>
    /\ UNCHANGED <<snapshot, subscriberVars, repoExists, messageVars, retry, watcherVars>>

SucceedCallKeepsStatus(c, message) ==
    /\ lastSyncTime' = Now(lastSyncTime)
    /\ UNCHANGED <<status, shown>>
    /\ calls' = [calls EXCEPT ![c] = "idle"]

\* lastSyncTime = new Date(); updateStatus("idle", ...): the success tail of
\* performManualSync (111-117), pull (138-139), push (159-160), initialize
\* (46-47); the invocation returns to its caller
SucceedCall(c, message) ==
    /\ lastSyncTime' = Now(lastSyncTime)
    /\ UpdateStatus("idle", message)
    /\ calls' = [calls EXCEPT ![c] = "idle"]

FailCallStampsTime(c, message) ==
    /\ UpdateStatus("error", message)
    /\ calls' = [calls EXCEPT ![c] = "idle"]
    /\ lastSyncTime' = Now(lastSyncTime)

\* the catch of performManualSync (119-121): error, and the invocation
\* returns to its caller without raising
FailCall(c, message) ==
    /\ UpdateStatus("error", message)
    /\ calls' = [calls EXCEPT ![c] = "idle"]
    /\ UNCHANGED lastSyncTime

\* the catch of pullFromRemote (144-146) and pushToRemote (165-167): error,
\* and the failure is raised again to the caller (FailAndSwallow: the catch
\* without its throw)
FailAndSwallow(c, message) ==
    /\ UpdateStatus("error", message)
    /\ calls' = [calls EXCEPT ![c] = "idle"]
    /\ UNCHANGED lastSyncTime

FailAndRaise(c, message) ==
    /\ UpdateStatus("error", message)
    /\ calls' = [calls EXCEPT ![c] = "raised"]
    /\ UNCHANGED lastSyncTime

TreeIsCleanNever(r) == FALSE

\* performManualSync line 94: if (status.clean)
TreeIsClean(r) == r = "clean"

\* gitService.getStatus() returns or throws
ManualStatusDone(c, r) ==
    /\ calls[c] = "manualStatus"
    /\ r \in StatusResults
    /\ CASE r = "fail"    -> FailCall(c, "Manual sync failed")
         [] TreeIsClean(r) -> /\ UpdateStatus("idle", "No changes to sync")
                              /\ calls' = [calls EXCEPT ![c] = "idle"]
                              /\ UNCHANGED lastSyncTime
         [] OTHER          -> /\ calls' = [calls EXCEPT ![c] = "manualCommit"]
                              /\ UNCHANGED <<status, shown, lastSyncTime>>
    /\ UNCHANGED <<syncQueue, isProcessingQueue, settings, drain,
                   nextId, commitLog, noops, dropped>>
    /\ UNCHANGED <<snapshot, subscriberVars, repoExists, messageVars, retry, watcherVars>>

\* gitService.commit('Manual sync from Loom') returns or throws
ManualCommitDone(c, r) ==
    /\ calls[c] = "manualCommit"
    /\ r \in CallResults
    /\ IF r = "ok"
       THEN IF WantsPush
            THEN /\ calls' = [calls EXCEPT ![c] = "manualPush"]
                 /\ UNCHANGED <<status, shown, lastSyncTime>>
            ELSE SucceedCall(c, "Manual sync completed")
       ELSE FailCall(c, "Manual sync failed")
    /\ UNCHANGED <<syncQueue, isProcessingQueue, settings, drain,
                   nextId, commitLog, noops, dropped>>
    /\ UNCHANGED <<snapshot, subscriberVars, repoExists, messageVars, retry, watcherVars>>

\* gitService.push() of the manual sync returns or throws
ManualPushDone(c, r) ==
    /\ calls[c] = "manualPush"
    /\ r \in CallResults
    /\ IF r = "ok"
       THEN SucceedCall(c, "Manual sync completed")
       ELSE FailCall(c, "Manual sync failed")
    /\ UNCHANGED <<syncQueue, isProcessingQueue, settings, drain,
                   nextId, commitLog, noops, dropped>>
    /\ UNCHANGED <<snapshot, subscriberVars, repoExists, messageVars, retry, watcherVars>>

\* the messages of pullFromRemote and pushToRemote
RemoteMessage(kind, step) ==
    CASE step = "start" -> IF kind = "pull" THEN "Pulling from remote" ELSE "Pushing to remote"
      [] step = "done"  -> IF kind = "pull" THEN "Pull completed" ELSE "Push completed"
      [] step = "fail"  -> IF kind = "pull" THEN "Pull failed" ELSE "Push failed"

RemoteConfiguredAlways(s) == TRUE

\* pullFromRemote / pushToRemote lines 130 and 151: a remote is required
RemoteConfigured(s) == s.remoteUrl

\* pullFromRemote / pushToRemote up to the Gateway call; with no remote the
\* call throws 'No remote repository configured' before touching anything
StartRemoteCall(c, kind) ==
    /\ FreeCall(c)
    /\ kind \in {"pull", "push"}
    /\ IF RemoteConfigured(settings)
       THEN /\ UpdateStatus("syncing", RemoteMessage(kind, "start"))
            /\ calls' = [calls EXCEPT ![c] = kind]
       ELSE /\ calls' = [calls EXCEPT ![c] = "raised"]
            /\ UNCHANGED <<status, shown>>
    /\ UNCHANGED <<lastSyncTime, syncQueue, isProcessingQueue, settings, drain,
                   nextId, commitLog, noops, dropped>>
    /\ UNCHANGED <<snapshot, subscriberVars, repoExists, messageVars, retry, watcherVars>>

\* gitService.pull() / push() returns or throws (the throw is re-raised)
RemoteCallDone(c, r) ==
    /\ calls[c] \in {"pull", "push"}
    /\ r \in CallResults
    /\ IF r = "ok"
       THEN SucceedCall(c, RemoteMessage(calls[c], "done"))
       ELSE FailAndRaise(c, RemoteMessage(calls[c], "fail"))
    /\ UNCHANGED <<syncQueue, isProcessingQueue, settings, drain,
                   nextId, commitLog, noops, dropped>>
    /\ UNCHANGED <<snapshot, subscriberVars, repoExists, messageVars, retry, watcherVars>>

\* the caller of a settled invocation goes on: after the short-circuit of
\* performManualSync, or in its catch after pull / push raised
CallSettles(c) ==
    /\ calls[c] \in {"returned", "raised"}
    /\ calls' = [calls EXCEPT ![c] = "idle"]
    /\ UNCHANGED <<status, shown, lastSyncTime, syncQueue, isProcessingQueue, settings, drain,
                   nextId, commitLog, noops, dropped>>
    /\ UNCHANGED <<snapshot, subscriberVars, repoExists, messageVars, retry, watcherVars>>

\* GitService.isRepositoryInitialized: the body is 'return true', whatever
\* the vault holds
IsRepositoryInitialized(vaultHasRepo) == TRUE

NeedsReachabilityTestAlways(s) == TRUE

\* initialize line 38: if (this.settings.remoteUrl)
NeedsReachabilityTest(s) == s.remoteUrl

\* initialize up to its first await
Initialize(c) ==
    /\ FreeCall(c)
    /\ IF ~IsRepositoryInitialized(repoExists)
       THEN /\ UpdateStatus("offline", "Git repository not initialized")
            /\ UNCHANGED <<calls, lastSyncTime>>
       ELSE IF NeedsReachabilityTest(settings)
            THEN /\ calls' = [calls EXCEPT ![c] = "testConnection"]
                 /\ UNCHANGED <<status, shown, lastSyncTime>>
            ELSE /\ UpdateStatus("idle", "Ready to sync")
                 /\ lastSyncTime' = Now(lastSyncTime)
                 /\ UNCHANGED calls
    /\ UNCHANGED <<syncQueue, isProcessingQueue, settings, drain,
                   nextId, commitLog, noops, dropped>>
    /\ UNCHANGED <<snapshot, subscriberVars, repoExists, messageVars, retry, watcherVars>>

\* gitService.testConnection() returns true or false (it never throws)
TestConnectionDone(c, ok) ==
    /\ calls[c] = "testConnection"
    /\ IF ok
       THEN SucceedCall(c, "Ready to sync")
       ELSE /\ UpdateStatus("offline", "Cannot connect to remote repository")
            /\ calls' = [calls EXCEPT ![c] = "idle"]
            /\ UNCHANGED lastSyncTime
    /\ UNCHANGED <<syncQueue, isProcessingQueue, settings, drain,
                   nextId, commitLog, noops, dropped>>
    /\ UNCHANGED <<snapshot, subscriberVars, repoExists, messageVars, retry, watcherVars>>

\* updateSettings: the coordinator reads the new settings from now on
UpdateSettings(s) ==
    /\ s # settings
    /\ settings' = s
    /\ UNCHANGED <<status, shown, lastSyncTime, syncQueue, isProcessingQueue, drain,
                   calls, nextId, commitLog, noops, dropped>>
    /\ UNCHANGED <<snapshot, subscriberVars, repoExists, messageVars, retry, watcherVars>>

\* ------------------------------------------------------- the subscribers
\* the calls of updateStatus a caller makes: a status and its message
Transitions ==
    { <<"syncing", "Processing file changes">>,
      <<"idle", "Sync completed">>,
      <<"error", "Sync failed">> }

\* what a subscriber does inside its callback: nothing, or
\* removeStatusCallback of a subscriber (itself or another)
Reactions == {0} \cup Subscribers

\* Array.prototype.indexOf: the first position of x in callbacks, 0 if none
IndexOf(callbacks, x) ==
    IF \E i \in 1..Len(callbacks) : callbacks[i] = x
    THEN CHOOSE i \in 1..Len(callbacks) :
            callbacks[i] = x /\ \A j \in 1..(i - 1) : callbacks[j] # x
    ELSE 0

\* Array.prototype.splice(index, 1)
Splice(callbacks, i) == SubSeq(callbacks, 1, i - 1) \o SubSeq(callbacks, i + 1, Len(callbacks))

\* the body of removeStatusCallback (lines 58-61)
WithoutCallback(callbacks, x) ==
    IF IndexOf(callbacks, x) > 0 THEN Splice(callbacks, IndexOf(callbacks, x)) ELSE callbacks

\* onStatusChange, called while no announcement runs
OnStatusChange(x) ==
    /\ ~announce.active
    /\ \A i \in 1..Len(statusCallbacks) : statusCallbacks[i] # x
    /\ statusCallbacks' = Append(statusCallbacks, x)
    /\ UNCHANGED <<announce, delivered>>
    /\ UNCHANGED <<status, shown, lastSyncTime, syncQueue, isProcessingQueue, settings,
                   drain, calls, nextId, commitLog, noops, dropped>>
    /\ UNCHANGED <<snapshot, repoExists, messageVars, retry, watcherVars>>

\* removeStatusCallback, called while no announcement runs
RemoveStatusCallback(x) ==
    /\ ~announce.active
    /\ IndexOf(statusCallbacks, x) > 0
    /\ statusCallbacks' = WithoutCallback(statusCallbacks, x)
    /\ UNCHANGED <<announce, delivered>>
    /\ UNCHANGED <<status, shown, lastSyncTime, syncQueue, isProcessingQueue, settings,
                   drain, calls, nextId, commitLog, noops, dropped>>
    /\ UNCHANGED <<snapshot, repoExists, messageVars, retry, watcherVars>>

\* updateStatus lines 261-262: the status is set and forEach starts, with
\* the length of the array as it is now
BeginUpdateStatus(s, message) ==
    /\ ~announce.active
    /\ UpdateStatus(s, message)
    /\ announce' = [active |-> TRUE, k |-> 0, len |-> Len(statusCallbacks),
                    atStart |-> statusCallbacks, called |-> <<>>]
    /\ UNCHANGED <<statusCallbacks, delivered>>
    /\ UNCHANGED <<lastSyncTime, syncQueue, isProcessingQueue, settings,
                   drain, calls, nextId, commitLog, noops, dropped>>
    /\ UNCHANGED <<snapshot, repoExists, messageVars, retry, watcherVars>>

\* forEach visits index k, which the array still has: the callback there
\* is called with the status, and reacts
CallSubscriber(reaction) ==
    /\ announce.active
    /\ announce.k < announce.len
    /\ announce.k + 1 <= Len(statusCallbacks)
    /\ LET x == statusCallbacks[announce.k + 1] IN
         /\ delivered' = [delivered EXCEPT ![x] = status]
         /\ announce' = [announce EXCEPT !.k = @ + 1, !.called = Append(@, x)]
    /\ statusCallbacks' = IF reaction = 0 THEN statusCallbacks
                          ELSE WithoutCallback(statusCallbacks, reaction)
    /\ UNCHANGED <<status, shown, lastSyncTime, syncQueue, isProcessingQueue, settings,
                   drain, calls, nextId, commitLog, noops, dropped>>
    /\ UNCHANGED <<snapshot, repoExists, messageVars, retry, watcherVars>>

\* forEach visits index k, which the array has no more: nothing is called
SkipIndex ==
    /\ announce.active
    /\ announce.k < announce.len
    /\ announce.k + 1 > Len(statusCallbacks)
    /\ announce' = [announce EXCEPT !.k = @ + 1]
    /\ UNCHANGED <<statusCallbacks, delivered>>
    /\ UNCHANGED <<status, shown, lastSyncTime, syncQueue, isProcessingQueue, settings,
                   drain, calls, nextId, commitLog, noops, dropped>>
    /\ UNCHANGED <<snapshot, repoExists, messageVars, retry, watcherVars>>

\* forEach is over: updateStatus returns to its caller
EndUpdateStatus ==
    /\ announce.active
    /\ announce.k = announce.len
    /\ announce' = [announce EXCEPT !.active = FALSE]
    /\ UNCHANGED <<statusCallbacks, delivered>>
    /\ UNCHANGED <<status, shown, lastSyncTime, syncQueue, isProcessingQueue, settings,
                   drain, calls, nextId, commitLog, noops, dropped>>
    /\ UNCHANGED <<snapshot, repoExists, messageVars, retry, watcherVars>>

\* ------------------------------------------------------------ the watcher
\* A path is the sequence of its characters.
NoteA      == <<"a">>
NoteB      == <<"b">>
BackupFile == <<"a", "~">>
Paths      == {NoteA, NoteB, BackupFile}

\* FileChangeAction, and the vault events start() registers a handler for
FileChangeActions == {"create", "modify", "delete", "rename"}
AllEvents == <<"create", "modify", "delete", "rename">>

\* the settings' exclusion pattern lists the watcher is built with
ExcludeChoices == {<<>>, << <<"b", "*">> >>}

\* paths and pattern lists the filter is tried on: notes, transient files,
\* version-control metadata, at the top of the vault and in a folder
FilterPaths ==
    { <<"a">>, <<"b">>, <<"a", "a">>, <<"a", "+">>, <<"a", "~">>,
      <<"a", ".", "x">>, <<"a", "b", "x">>,
      <<".", "g", "i", "t", "/", "c">>,
      <<"d", "/", ".", "g", "i", "t", "/", "c">>,
      <<"T", "h", "u", "m", "b", "s", ".", "d", "b">>,
      <<"d", "/", "T", "h", "u", "m", "b", "s", ".", "d", "b">>,
      <<"d", "/", ".", "D", "S", "_", "S", "t", "o", "r", "e">>,
      <<"d", "/", "a", ".", "t", "m", "p">>,
      <<"d", "/", "a", ".", "s", "w", "p">>,
      <<"d", "/", "a", ".", "s", "w", "o">> }

FilterPatternChoices ==
    { <<>>,
      << <<"b", "*">> >>,
      << <<"a", "?">> >>,
      << <<"a", ".", "x">> >>,
      << <<"a", "+">> >>,
      << <<"d", "/", "*">>, <<"*", ".", "x">> >> }

\* String.prototype.startsWith, and a RegExp /suffix$/ on a literal suffix
StartsWith(path, prefix) ==
    /\ Len(path) >= Len(prefix)
    /\ SubSeq(path, 1, Len(prefix)) = prefix

EndsWith(path, suffix) ==
    /\ Len(path) >= Len(suffix)
    /\ SubSeq(path, Len(path) - Len(suffix) + 1, Len(path)) = suffix

\* matchesPattern lines 130-133: the three replace calls, on each character
\* of the pattern: '.' becomes an escaped dot (one token), '*' becomes '.*',
\* '?' becomes '.'; every other character is copied as it is
RECURSIVE RegexPattern(_)
RegexPattern(pattern) ==
    IF pattern = <<>> THEN <<>>
    ELSE (CASE Head(pattern) = "." -> <<"\\.">>
            [] Head(pattern) = "*" -> <<".", "*">>
            [] Head(pattern) = "?" -> <<".">>
            [] OTHER               -> <<Head(pattern)>>)
         \o RegexPattern(Tail(pattern))

\* one atom of a regular expression against one character: an escaped dot
\* is a dot, a bare dot is any character, a plain character is itself
AtomMatches(atom, ch) ==
    CASE atom = "\\." -> ch = "."
      [] atom = "."   -> TRUE
      [] OTHER        -> ch = atom

\* RegExp.prototype.test of the anchored expression ^regex$ on a string,
\* for expressions made of atoms, each optionally followed by the
\* quantifier '*' (any number of times) or '+' (at least once)
RECURSIVE RegexMatch(_, _)
RegexMatch(regex, str) ==
    IF regex = <<>> THEN str = <<>>
    ELSE LET atom == Head(regex)
             rest == Tail(regex)
             quantifier == IF rest # <<>> /\ Head(rest) \in {"*", "+"}
                           THEN Head(rest) ELSE "none"
         IN  CASE quantifier = "*" ->
                    \/ RegexMatch(Tail(rest), str)
                    \/ /\ str # <<>>
                       /\ AtomMatches(atom, Head(str))
                       /\ RegexMatch(regex, Tail(str))
               [] quantifier = "+" ->
                    /\ str # <<>>
                    /\ AtomMatches(atom, Head(str))
                    /\ \/ RegexMatch(Tail(rest), Tail(str))
                       \/ RegexMatch(regex, Tail(str))
               [] OTHER ->
                    /\ str # <<>>
                    /\ AtomMatches(atom, Head(str))
                    /\ RegexMatch(rest, Tail(str))

\* FileWatcher.matchesPattern
MatchesPattern(filePath, pattern) == RegexMatch(RegexPattern(pattern), filePath)

\* FileWatcher.shouldIgnoreFile
ShouldIgnoreFile(filePath, patterns) ==
    \/ \E k \in 1..Len(patterns) : MatchesPattern(filePath, patterns[k])
    \/ StartsWith(filePath, <<".", "g", "i", "t", "/">>)
    \/ EndsWith(filePath, <<".", "t", "m", "p">>)
    \/ EndsWith(filePath, <<"~">>)
    \/ EndsWith(filePath, <<".", "D", "S", "_", "S", "t", "o", "r", "e">>)
    \/ filePath = <<"T", "h", "u", "m", "b", "s", ".", "d", "b">>
    \/ EndsWith(filePath, <<".", "s", "w", "p">>)
    \/ EndsWith(filePath, <<".", "s", "w", "o">>)

\* stop() was called: every event of the pending window is now an event
\* observed before a stop
MarkBeforeStop(w) == [k \in 1..Len(w) |-> [w[k] EXCEPT !.beforeStop = TRUE]]

\* the body of FileWatcher.stop after its guard
StopBody ==
    /\ isActive' = FALSE
    /\ callback' = FALSE
    /\ eventRefs' = <<>>
    /\ window' = MarkBeforeStop(window)

\* FileWatcher.stop: nothing when not active; the pending timeout is left
\* alone
Stop ==
    /\ isActive
    /\ StopBody
    /\ UNCHANGED <<excludePatterns, debounceDelay, timers, emitted, eventCount>>
    /\ UNCHANGED <<coordinatorVars, snapshot, subscriberVars, repoExists, messageVars, retry>>

StopsFirstNever == FALSE

\* FileWatcher.start lines 24-26: if (this.isActive) this.stop()
StopsFirst == isActive

\* FileWatcher.start: stop() first when active, then isActive, the callback
\* and setupFileEvents, which registers the four handlers and pushes their
\* references
Start ==
    /\ isActive' = TRUE
    /\ callback' = TRUE
    /\ eventRefs' = (IF StopsFirst THEN <<>> ELSE eventRefs) \o AllEvents
    /\ window' = IF StopsFirst THEN MarkBeforeStop(window) ELSE window
    /\ UNCHANGED <<excludePatterns, debounceDelay, timers, emitted, eventCount>>
    /\ UNCHANGED <<coordinatorVars, snapshot, subscriberVars, repoExists, messageVars, retry>>

\* the values the delay slider of the settings tab is moved to
DelayChoices == {DefaultDebounceDelay, 2 * DefaultDebounceDelay}

\* FileWatcher.updateSettings, called by saveSettings after the settings tab
\* has changed the debounce delay to d: the settings object is replaced
WatcherUpdateSettings(d) ==
    /\ debounceDelay' = d
    /\ UNCHANGED <<isActive, callback, eventRefs, excludePatterns, timers, window,
                   emitted, eventCount>>
    /\ UNCHANGED <<coordinatorVars, snapshot, subscriberVars, repoExists, messageVars, retry>>

ClearTimeoutNot(pending) == pending

\* debounce lines 8-10: clearTimeout(timeoutId) cancels the timeout set by
\* the previous call, the only one that can be pending
ClearTimeout(pending) == <<>>

\* the function debounce returns, called with (file, action): the pending
\* timeout is cancelled and a new one set with these arguments
Debounced(file, action) ==
    /\ timers' = Append(ClearTimeout(timers),
                        [file |-> file, action |-> action, event |-> eventCount',
                         delay |-> DebounceDelay, configured |-> debounceDelay])
    /\ window' = Append(window,
                        [file |-> file, action |-> action, event |-> eventCount',
                         beforeStop |-> FALSE])

\* the vault fires an event a handler is registered for (setupFileEvents):
\* a TFile goes to handleFileChange, a folder is dropped
VaultEvent(kind, file, isTFile) ==
    /\ \E k \in 1..Len(eventRefs) : eventRefs[k] = kind
    /\ eventCount < MaxEvents
    /\ eventCount' = eventCount + 1
    /\ IF isTFile
       THEN Debounced(file, kind)
       ELSE UNCHANGED <<timers, window>>
    /\ UNCHANGED <<isActive, callback, eventRefs, excludePatterns, debounceDelay, emitted>>
    /\ UNCHANGED <<coordinatorVars, snapshot, subscriberVars, repoExists, messageVars, retry>>

\* the files of the events of window w that the filter accepts
AcceptedFiles(w) ==
    {w[k].file : k \in {j \in 1..Len(w) : ~ShouldIgnoreFile(w[j].file, excludePatterns)}}

\* the oldest pending timeout fires: the function given to debounce
\* (file-watcher.ts 51-56) runs with the arguments of the call that set it
TimerRuns ==
    /\ timers # <<>>
    /\ timers' = Tail(timers)
    /\ window' = <<>>
    /\ LET args == Head(timers) IN
       IF ~isActive \/ ~callback \/ ShouldIgnoreFile(args.file, excludePatterns)
       THEN UNCHANGED emitted
       ELSE emitted' = Append(emitted,
                [file |-> args.file, action |-> args.action,
                 burst |-> Len(window),
                 covers |-> AcceptedFiles(window),
                 stale |-> \E k \in 1..Len(window) :
                              window[k].event = args.event /\ window[k].beforeStop])
    /\ UNCHANGED <<isActive, callback, eventRefs, excludePatterns, debounceDelay, eventCount>>

\* the same with a callback that does nothing to the coordinator
TimerFires ==
    /\ TimerRuns
    /\ UNCHANGED <<coordinatorVars, snapshot, subscriberVars, repoExists, messageVars, retry>>

\* processSyncOperation lines 216-221: what the commit of an operation
\* stages, among the paths of the vault: everything for a delete, else the
\* operation's own path
StagedPaths(op) == IF op.action = "delete" THEN Paths ELSE {op.file}

\* ------------------------------------------------------ commit messages
\* Strings are sequences of one-character strings.
ActionPlaceholder   == <<"{", "a", "c", "t", "i", "o", "n", "}">>
FilenamePlaceholder == <<"{", "f", "i", "l", "e", "n", "a", "m", "e", "}">>

\* templates the settings tab's text field may hold
TemplateChoices ==
    { DefaultTemplate,
      <<"{", "f", "i", "l", "e", "n", "a", "m", "e", "}">>,
      <<"{", "a", "c", "t", "i", "o", "n", "}", " ", "{", "a", "c", "t", "i", "o", "n", "}">> }

NoteMd == <<"n", "o", "t", "e", ".", "m", "d">>
MyNoteMd == <<"m", "y", "-", "n", "o", "t", "e", ".", "m", "d">>
\* a file in a folder, with characters sanitizeFilename and replace treat specially
OddName == <<"d", "/", "a", "?", "$", "&">>

LowerCase == <<"a", "b", "c", "d", "e", "f", "g", "h", "i", "j", "k", "l", "m", "n", "o", "p", "q", "r", "s", "t", "u", "v", "w", "x", "y", "z">>
UpperCase == <<"A", "B", "C", "D", "E", "F", "G", "H", "I", "J", "K", "L", "M", "N", "O", "P", "Q", "R", "S", "T", "U", "V", "W", "X", "Y", "Z">>

\* String.prototype.toUpperCase on one character
ToUpperCase(ch) ==
    IF \E i \in 1..Len(LowerCase) : LowerCase[i] = ch
    THEN UpperCase[CHOOSE i \in 1..Len(LowerCase) : LowerCase[i] = ch]
    ELSE ch

\* GitService.capitalizeFirst: str.charAt(0).toUpperCase() + str.slice(1)
CapitalizeFirst(str) ==
    IF str = <<>> THEN <<>> ELSE <<ToUpperCase(Head(str))>> \o Tail(str)

\* sanitizeFilename: filename.replace(/[<>:"|?*]/g, '_')
SanitizeFilename(filename) ==
    [i \in 1..Len(filename) |->
        IF filename[i] \in {"<", ">", ":", "\"", "|", "?", "*"} THEN "_" ELSE filename[i]]

\* SyncManager.getActionDisplayName
GetActionDisplayName(action) ==
    CASE action = "create" -> <<"C", "r", "e", "a", "t", "e", "d">>
      [] action = "modify" -> <<"U", "p", "d", "a", "t", "e", "d">>
      [] action = "delete" -> <<"D", "e", "l", "e", "t", "e", "d">>
      [] action = "rename" -> <<"R", "e", "n", "a", "m", "e", "d">>
      [] OTHER             -> <<"M", "o", "d", "i", "f", "i", "e", "d">>

\* pat occurs in str at position i
OccursAt(str, pat, i) ==
    /\ i + Len(pat) - 1 <= Len(str)
    /\ \A j \in 1..Len(pat) : str[i + j - 1] = pat[j]

\* String.prototype.indexOf, from 1; 0 when pat does not occur
FirstOccurrence(str, pat) ==
    IF \E i \in 1..Len(str) : OccursAt(str, pat, i)
    THEN CHOOSE i \in 1..Len(str) :
            OccursAt(str, pat, i) /\ \A j \in 1..(i - 1) : ~OccursAt(str, pat, j)
    ELSE 0

\* the grave accent U+0060, which a string of this language cannot hold
GraveAccent == "grave"

\* GetSubstitution: in a replacement string $$ is a dollar sign, $& the
\* matched text, $ with a grave accent the text before the match and $ with
\* an apostrophe the text after it
RECURSIVE Expand(_, _, _, _)
Expand(repl, matched, before, after) ==
    IF repl = <<>> THEN <<>>
    ELSE IF Head(repl) = "$" /\ Len(repl) >= 2 /\ repl[2] \in {"$", "&", GraveAccent, "'"}
         THEN (CASE repl[2] = "$" -> <<"$">>
                 [] repl[2] = "&" -> matched
                 [] repl[2] = GraveAccent -> before
                 [] OTHER         -> after)
              \o Expand(Tail(Tail(repl)), matched, before, after)
         ELSE <<Head(repl)>> \o Expand(Tail(repl), matched, before, after)

\* String.prototype.replace(pat, repl) with a string pattern: the first
\* occurrence only
Replace(str, pat, repl) ==
    LET i == FirstOccurrence(str, pat) IN
    IF i = 0 THEN str
    ELSE LET before == SubSeq(str, 1, i - 1)
             after  == SubSeq(str, i + Len(pat), Len(str))
         IN before \o Expand(repl, pat, before, after) \o after

\* TFile.name: the last segment of the path
TFileName(path) ==
    LET slashes == {i \in 1..Len(path) : path[i] = "/"}
        last == IF slashes = {} THEN 0
                ELSE CHOOSE i \in slashes : \A j \in slashes : j <= i
    IN  SubSeq(path, last + 1, Len(path))

\* GitService.generateCommitMessage
GitGenerateCommitMessage(action, filename) ==
    Replace(Replace(template, ActionPlaceholder, CapitalizeFirst(action)),
            FilenamePlaceholder, filename)

\* SyncManager.generateCommitMessage, of an operation on the file at path
GenerateCommitMessage(operation) ==
    GitGenerateCommitMessage(GetActionDisplayName(operation.action),
                             SanitizeFilename(TFileName(operation.file)))

\* processSyncOperation lines 216-221: the paths handed to gitService.commit,
\* none for a delete
CommitPaths(operation) ==
    IF operation.action = "delete" THEN <<>> ELSE <<operation.file>>

WholeTree == "."

StagesGivenPathsAlways(filePaths) == TRUE

\* GitService.commit line 82: filePaths && filePaths.length > 0
StagesGivenPaths(filePaths) == Len(filePaths) > 0

\* GitService.commit lines 81-86: what git add is called with
GitAdd(filePaths) ==
    IF StagesGivenPaths(filePaths) THEN {filePaths[k] : k \in 1..Len(filePaths)}
    ELSE {WholeTree}

\* ------------------------------------------------------------ RetryHelper
\* the arguments RetryHelper.retry is called with
RetryCounts == 0..MaxRetryArg
BaseDelays == {500, 1000}

RECURSIVE Pow2(_)
\* Math.pow(2, n)
Pow2(n) == IF n = 0 THEN 1 ELSE 2 * Pow2(n - 1)

BackoffDelayFixed(baseDelay, attempt) == baseDelay

\* RetryHelper.retry line 118: baseDelay * Math.pow(2, attempt)
BackoffDelay(baseDelay, attempt) == baseDelay * Pow2(attempt)

\* RetryHelper.retry is called: attempt 0, and the operation is invoked
RetryStart(maxRetries, baseDelay) ==
    /\ retry.pc = "idle"
    /\ retry' = [NoRetry EXCEPT !.pc = "invoke", !.maxRetries = maxRetries,
                                !.baseDelay = baseDelay]
    /\ UNCHANGED <<coordinatorVars, snapshot, subscriberVars, repoExists, messageVars,
                   watcherVars>>

\* the operation invoked in this attempt settles: its result is returned,
\* or its error is kept and either thrown after the last attempt or
\* followed by a sleep
RetryInvoke(ok) ==
    /\ retry.pc = "invoke"
    /\ LET n == Len(retry.invoked) + 1 IN
       retry' =
         IF ok
         THEN [retry EXCEPT !.pc = "returned", !.invoked = Append(@, "ok"),
                            !.result = [value |-> n]]
         ELSE IF IsLastAttempt(retry.attempt, retry.maxRetries)
              THEN [retry EXCEPT !.pc = "raised", !.invoked = Append(@, "fail"),
                                 !.result = [error |-> n]]
              ELSE [retry EXCEPT !.pc = "sleep", !.invoked = Append(@, "fail"),
                                 !.waits = Append(@, BackoffDelay(retry.baseDelay,
                                                                  retry.attempt))]
    /\ UNCHANGED <<coordinatorVars, snapshot, subscriberVars, repoExists, messageVars,
                   watcherVars>>

\* sleep(delay) is over: attempt++, and the operation is invoked again
RetrySleepOver ==
    /\ retry.pc = "sleep"
    /\ retry' = [retry EXCEPT !.pc = "invoke", !.attempt = @ + 1]
    /\ UNCHANGED <<coordinatorVars, snapshot, subscriberVars, repoExists, messageVars,
                   watcherVars>>

\* the caller has the result or the error; RetryHelper keeps no state
RetrySettles ==
    /\ retry.pc \in {"returned", "raised"}
    /\ retry' = NoRetry
    /\ UNCHANGED <<coordinatorVars, snapshot, subscriberVars, repoExists, messageVars,
                   watcherVars>>

\* ------------------------------------------------- watcher to coordinator
\* the files the vault events of the end-to-end runs are about
EndToEndPaths == {NoteMd, OddName}

\* the vault fires an event about a file, in a run of few events
EndToEndEvent(kind, file) ==
    /\ eventCount < MaxEndToEndEvents
    /\ VaultEvent(kind, file, TRUE)

\* the debounced function calls the callback main.ts gave to start():
\* syncManager.handleFileChange(file, action)
Delivers ==
    /\ isActive
    /\ callback
    /\ ~ShouldIgnoreFile(Head(timers).file, excludePatterns)

\* the pending timeout fires and, when the event passes the filter, the
\* coordinator's handleFileChange runs within the same step, up to its
\* first Gateway call
TimerDelivers(h) ==
    /\ TimerRuns
    /\ IF Delivers
       THEN /\ Enqueue(h)
            /\ enqueued' = IF nextId' # nextId
                           THEN Append(enqueued, [file |-> Head(timers).file,
                                                  action |-> Head(timers).action])
                           ELSE enqueued
       ELSE UNCHANGED <<coordinatorVars, enqueued>>
    /\ UNCHANGED <<snapshot, subscriberVars, repoExists, template, commitCalls, retry>>

\* the commit call of the operation in flight returns; the message and the
\* paths are those processSyncOperation made the call with
CommitSucceedsRecorded(h, r) ==
    /\ CommitReturns(h, r)
    /\ LET operation == enqueued[drain[h].op.id] IN
       commitCalls' = Append(commitCalls,
            [id |-> drain[h].op.id,
             message |-> GenerateCommitMessage(operation),
             filePaths |-> CommitPaths(operation),
             added |-> GitAdd(CommitPaths(operation)),
             committed |-> Commits(r)])

\* ---------------------------------------------------------- specification
Next ==
    \/ \E h \in Handlers : HandleFileChange(h)
    \/ \E h \in Handlers, r \in CommitResults : CommitSucceeds(h, r)
    \/ \E h \in Handlers : CommitFailsRetry(h)
    \/ \E h \in Handlers : BackoffElapsed(h)
    \/ \E h \in Handlers : CommitFailsFinal(h)
    \/ \E h \in Handlers, r \in CallResults : TrailingPushDone(h, r)
    \/ \E c \in Calls : PerformManualSync(c)
    \/ \E c \in Calls, r \in StatusResults : ManualStatusDone(c, r)
    \/ \E c \in Calls, r \in CallResults : ManualCommitDone(c, r)
    \/ \E c \in Calls, r \in CallResults : ManualPushDone(c, r)
    \/ \E c \in Calls, k \in {"pull", "push"} : StartRemoteCall(c, k)
    \/ \E c \in Calls, r \in CallResults : RemoteCallDone(c, r)
    \/ \E c \in Calls : CallSettles(c)
    \/ \E c \in Calls : Initialize(c)
    \/ \E c \in Calls, ok \in BOOLEAN : TestConnectionDone(c, ok)
    \/ \E s \in [remoteUrl : BOOLEAN, autoPush : BOOLEAN] : UpdateSettings(s)

Spec == Init /\ [][Next]_vars

\* the Gateway call or the sleep a drain is suspended at comes to an end
DrainResumes(h) ==
    \/ \E r \in CommitResults : CommitSucceeds(h, r)
    \/ CommitFailsRetry(h)
    \/ BackoffElapsed(h)
    \/ CommitFailsFinal(h)
    \/ \E r \in CallResults : TrailingPushDone(h, r)

\* the Gateway call a direct invocation is suspended at comes to an end, or
\* the invocation hands its outcome to its caller
CallResumes(c) ==
    \/ \E r \in StatusResults : ManualStatusDone(c, r)
    \/ \E r \in CallResults : ManualCommitDone(c, r)
    \/ \E r \in CallResults : ManualPushDone(c, r)
    \/ \E r \in CallResults : RemoteCallDone(c, r)
    \/ \E ok \in BOOLEAN : TestConnectionDone(c, ok)
    \/ CallSettles(c)

\* every Gateway call and every sleep terminates: a suspended invocation is
\* resumed by the event loop
SpecLive ==
    /\ Spec
    /\ \A h \in Handlers : WF_vars(DrainResumes(h))
    /\ \A c \in Calls : WF_vars(CallResumes(c))

\* the same program started on any vault, with a repository or without
InitAnyVault ==
    /\ InitCoordinator
    /\ InitGateway(DefaultTemplate)
    /\ repoExists \in BOOLEAN
    /\ InitFileWatcher(<<>>)

SpecAnyVault == InitAnyVault /\ [][Next]_vars

\* the watcher on its own: the plugin's calls of start and stop, the vault's
\* events and the host's timeouts
InitWatcher ==
    /\ InitCoordinator
    /\ InitGateway(DefaultTemplate)
    /\ settings = [remoteUrl |-> FALSE, autoPush |-> FALSE]
    /\ repoExists = TRUE
    /\ \E patterns \in ExcludeChoices : InitFileWatcher(patterns)

NextWatcher ==
    \/ Start
    \/ Stop
    \/ \E kind \in FileChangeActions, file \in Paths, isTFile \in BOOLEAN :
          VaultEvent(kind, file, isTFile)
    \/ TimerFires

SpecWatcher == InitWatcher /\ [][NextWatcher]_vars

\* the watcher while the debounce delay of the settings is changed
NextWatcherSettings ==
    \/ Start
    \/ \E kind \in FileChangeActions, file \in Paths, isTFile \in BOOLEAN :
          VaultEvent(kind, file, isTFile)
    \/ TimerFires
    \/ \E d \in DelayChoices : WatcherUpdateSettings(d)

SpecWatcherSettings == InitWatcher /\ [][NextWatcherSettings]_vars

\* the announcements on their own: subscribers come and go, updateStatus is
\* called by the coordinator and runs its forEach callback by callback
InitSubscribers ==
    /\ InitCoordinator
    /\ InitGateway(DefaultTemplate)
    /\ settings = [remoteUrl |-> FALSE, autoPush |-> FALSE]
    /\ repoExists = TRUE
    /\ InitFileWatcher(<<>>)

NextSubscribers ==
    \/ \E x \in Subscribers : OnStatusChange(x)
    \/ \E x \in Subscribers : RemoveStatusCallback(x)
    \/ \E t \in Transitions : BeginUpdateStatus(t[1], t[2])
    \/ \E reaction \in Reactions : CallSubscriber(reaction)
    \/ SkipIndex
    \/ EndUpdateStatus

SpecSubscribers == InitSubscribers /\ [][NextSubscribers]_vars

\* the coordinator with the history of the settings each drain started under
NextSnapshot ==
    \/ \E h \in Handlers : HandleFileChangeRecorded(h)
    \/ \E h \in Handlers, r \in CommitResults : CommitSucceeds(h, r)
    \/ \E h \in Handlers : CommitFailsRetry(h)
    \/ \E h \in Handlers : BackoffElapsed(h)
    \/ \E h \in Handlers : CommitFailsFinal(h)
    \/ \E h \in Handlers, r \in CallResults : TrailingPushDone(h, r)
    \/ \E s \in [remoteUrl : BOOLEAN, autoPush : BOOLEAN] : UpdateSettings(s)

SpecSnapshot == Init /\ [][NextSnapshot]_vars

\* the watcher and the coordinator together, as main.ts wires them: the
\* callback of the watcher is the coordinator's handleFileChange
InitEndToEnd ==
    /\ InitCoordinator
    /\ \E t \in TemplateChoices : InitGateway(t)
    /\ repoExists = TRUE
    /\ InitFileWatcher(<<>>)

NextEndToEnd ==
    \/ Start
    \/ \E kind \in FileChangeActions, file \in EndToEndPaths : EndToEndEvent(kind, file)
    \/ \E h \in Handlers : TimerDelivers(h)
    \/ \E h \in Handlers, r \in CommitResults : CommitSucceedsRecorded(h, r)
    \/ \E h \in Handlers : CommitFailsRetry(h)
    \/ \E h \in Handlers : BackoffElapsed(h)
    \/ \E h \in Handlers : CommitFailsFinal(h)
    \/ \E h \in Handlers, r \in CallResults : TrailingPushDone(h, r)

SpecEndToEnd == InitEndToEnd /\ [][NextEndToEnd]_vars

\* the same wiring with one kind of event, while the plugin stops and
\* restarts the watcher and initializes the coordinator
NextDelivery ==
    \/ Start
    \/ Stop
    \/ EndToEndEvent("modify", NoteMd)
    \/ \E h \in Handlers : TimerDelivers(h)
    \/ \E h \in Handlers, r \in CommitResults : CommitSucceedsRecorded(h, r)
    \/ \E h \in Handlers : CommitFailsRetry(h)
    \/ \E h \in Handlers : BackoffElapsed(h)
    \/ \E h \in Handlers : CommitFailsFinal(h)
    \/ \E h \in Handlers, r \in CallResults : TrailingPushDone(h, r)
    \/ \E c \in Calls : Initialize(c)
    \/ \E c \in Calls, ok \in BOOLEAN : TestConnectionDone(c, ok)

SpecDelivery == Init /\ [][NextDelivery]_vars

\* RetryHelper.retry on its own, called with any arguments around an
\* operation that succeeds or fails at each invocation
NextRetry ==
    \/ \E maxRetries \in RetryCounts, baseDelay \in BaseDelays : RetryStart(maxRetries, baseDelay)
    \/ \E ok \in BOOLEAN : RetryInvoke(ok)
    \/ RetrySleepOver
    \/ RetrySettles

SpecRetry == Init /\ [][NextRetry]_vars

\* the filter on its own: a started watcher, one event for any of the paths
\* under any of the pattern lists, and the timeout firing
InitFilter ==
    /\ InitCoordinator
    /\ InitGateway(DefaultTemplate)
    /\ settings = [remoteUrl |-> FALSE, autoPush |-> FALSE]
    /\ repoExists = TRUE
    /\ \E patterns \in FilterPatternChoices : InitFileWatcher(patterns)

FilterEvent(kind, file) ==
    /\ eventCount = 0
    /\ VaultEvent(kind, file, TRUE)

NextFilter ==
    \/ Start
    \/ \E kind \in FileChangeActions, file \in FilterPaths : FilterEvent(kind, file)
    \/ TimerFires

SpecFilter == InitFilter /\ [][NextFilter]_vars

TypeOK ==
    /\ status \in SyncStatus
    /\ lastSyncTime \in 0..MaxClock
    /\ isProcessingQueue \in BOOLEAN
    /\ nextId \in 0..MaxOps
    /\ \A i \in 1..Len(syncQueue) : syncQueue[i].id \in OpIds
    /\ \A c \in Calls :
          calls[c] \in {"idle", "manualStatus", "manualCommit", "manualPush", "pull",
                        "push", "testConnection", "returned", "raised"}
    /\ shown = NoAnnouncement \/ shown.status \in SyncStatus
    /\ repoExists \in BOOLEAN
    /\ isActive \in BOOLEAN
    /\ callback \in BOOLEAN
    /\ eventRefs \in {<<>>, AllEvents}
    /\ excludePatterns \in ExcludeChoices \cup FilterPatternChoices
    /\ eventCount \in 0..MaxEvents
    /\ Len(window) <= MaxEvents
    /\ Len(emitted) <= MaxEvents
    /\ \A k \in 1..Len(timers) :
          /\ timers[k].file \in Paths \cup FilterPaths \cup EndToEndPaths
          /\ timers[k].action \in FileChangeActions
    /\ template \in TemplateChoices
    /\ Len(enqueued) = IF enqueued = <<>> THEN 0 ELSE nextId
    /\ Len(commitCalls) <= MaxOps
    /\ debounceDelay \in DelayChoices
    /\ snapshot \in [remoteUrl : BOOLEAN, autoPush : BOOLEAN]
    /\ Len(statusCallbacks) <= MaxSubscribers
    /\ \A i \in 1..Len(statusCallbacks) : statusCallbacks[i] \in Subscribers
    /\ announce.k \in 0..announce.len /\ announce.len <= MaxSubscribers
    /\ \A x \in Subscribers : delivered[x] \in SyncStatus \cup {"none"}

\* ------------------------------------------------------------ vocabulary
ActiveDrains == {h \in Handlers : drain[h].pc # "idle"}

Processing(h) == drain[h].pc \in {"commit", "sleep"}

\* operation i is in queue q
InQueue(q, i) == \E k \in 1..Len(q) : q[k].id = i

\* how many commits log holds for operation i
CommitCount(log, i) == Cardinality({k \in 1..Len(log) : log[k] = i})

\* operation i is among the dropped operations d
Dropped(d, i) == \E op \in d : op.id = i

\* the operation is done with: committed, completed as a no-op, or dropped
Resolved(i) == CommitCount(commitLog, i) > 0 \/ i \in noops \/ Dropped(dropped, i)

\* this step is the successful return of the commit call of h's operation
ProcessingSucceeds(h) ==
    /\ drain[h].pc = "commit"
    /\ \/ commitLog' = Append(commitLog, drain[h].op.id)
       \/ noops' = noops \cup {drain[h].op.id} /\ noops' # noops

\* this step is the end of a processing of h's operation by a failure: the
\* handler leaves the operation without the operation being done
ProcessingFails(h) ==
    /\ drain[h].pc = "commit"
    /\ drain'[h].pc = "idle"
    /\ ~ProcessingSucceeds(h)

\* ------------------------------------------------------------------ C1
\* C1: at most one drain loop of processQueue is active at any time, and a
\* handleFileChange call made while isProcessingQueue is true only appends
\* its operation: it pops nothing and starts no drain.
C1_SingleDrain ==
    /\ [](Cardinality(ActiveDrains) <= 1)
    /\ [][(isProcessingQueue /\ nextId' # nextId)
            => /\ syncQueue' = Append(syncQueue, NewOperation(nextId'))
               /\ drain' = drain]_vars

\* a second operation was enqueued while the first drain is still on its
\* first operation, and it waits in the queue
C1_Witness ==
    /\ isProcessingQueue
    /\ \E h \in Handlers : Processing(h) /\ drain[h].op.id = 1 /\ drain[h].op.retries = 0
    /\ Len(syncQueue) > 0
    /\ Head(syncQueue).id = 2

\* ------------------------------------------------------------------ C2
\* C2: at any moment at most one Gateway operation (commit, push, pull or
\* status query) is in flight, across the drain loop, performManualSync,
\* pullFromRemote and pushToRemote.
C2_OneGatewayCall == GatewayInFlight <= 1

\* ------------------------------------------------------------------ C3
\* C3: a queued operation whose commit fails does not abort the drain loop:
\* while operations are still in the queue behind the one being processed,
\* the drain does not end.
C3_FailureKeepsDraining ==
    [][\A h \in Handlers :
         (drain[h].pc = "commit" /\ Len(syncQueue) > 0) => drain'[h].pc # "idle"]_vars

\* ------------------------------------------------------------------ C4
\* C4: every operation placed on the queue is removed from it without a
\* further file-change event: once no drain is in progress the queue is empty.
C4_QueueDrained == ~isProcessingQueue => syncQueue = <<>>

\* ------------------------------------------------------------------ C5
\* C5: a failure of a queued operation moves the status to error only after
\* both retry levels are exhausted: when the failed operation is re-queued,
\* the status is not set to error.
C5_ErrorOnlyWhenExhausted ==
    [][\A h \in Handlers :
         (ProcessingFails(h) /\ InQueue(syncQueue', drain[h].op.id)) => status' # "error"]_vars

\* ------------------------------------------------------------------ C6
\* C6: operations are committed in the order they were enqueued: while an
\* operation is being processed, every operation enqueued before it has been
\* committed, completed as a no-op or dropped, and the commits in the log
\* are in enqueue order.
C6_CommitOrder ==
    /\ \A h \in Handlers :
         Processing(h) => \A j \in 1..(drain[h].op.id - 1) : Resolved(j)
    /\ \A k \in 1..Len(commitLog) : \A l \in 1..Len(commitLog) :
         k < l => commitLog[k] < commitLog[l]

\* the first operation failed, was re-queued and is processed again while
\* the second one waits behind it
C6_Witness ==
    /\ \E h \in Handlers :
         Processing(h) /\ drain[h].op.id = 1 /\ drain[h].op.retries >= 1
    /\ InQueue(syncQueue, 2)

\* ------------------------------------------------------------------ C7
\* C7: when a processing fails and the operation has outer attempts left,
\* the operation goes back to the front of the queue, ahead of every
\* operation in it, with its retry count increased by exactly one.
C7_RequeueAtFront ==
    [][\A h \in Handlers :
         (ProcessingFails(h) /\ drain[h].op.retries + 1 < 3)
            => syncQueue' = <<[drain[h].op EXCEPT !.retries = drain[h].op.retries + 1]>>
                              \o syncQueue]_vars

\* a failed operation sits at the front with one retry counted, ahead of an
\* operation that was enqueued while it was being processed
C7_Witness ==
    /\ Len(syncQueue) >= 2
    /\ syncQueue[1].id = 1 /\ syncQueue[1].retries = 1
    /\ syncQueue[2].id = 2 /\ syncQueue[2].pops = 0
    /\ ~isProcessingQueue

\* ------------------------------------------------------------------ C8
\* C8: outer retry cap: an operation is popped and attempted at most 3 times;
\* no operation in the queue has a retry count of 3 or more; the third failed
\* processing drops the operation (it is not re-queued) and sets error.
C8_OuterCap ==
    /\ [](/\ \A k \in 1..Len(syncQueue) :
               syncQueue[k].retries < 3 /\ syncQueue[k].pops <= 2
          /\ \A h \in Handlers : Processing(h) => drain[h].op.pops <= 3
          /\ \A op \in dropped : op.pops = 3 /\ ~InQueue(syncQueue, op.id))
    /\ [][\A h \in Handlers :
            (ProcessingFails(h) /\ drain[h].op.pops = 3)
               => /\ status' = "error"
                  /\ syncQueue' = syncQueue
                  /\ Dropped(dropped', drain[h].op.id)]_vars

\* an operation was dropped
C8_Witness == \E op \in dropped : op.retries = 3 /\ status = "error"

\* ------------------------------------------------------------------ C9
\* C9 (as stated): an operation is abandoned after exactly 6 Gateway commit
\* attempts in total.
C9_SixAttempts == \A op \in dropped : op.attempts = 6

\* C9 (amended): an operation is abandoned after exactly 9 Gateway commit
\* attempts in total: 3 processings of 3 attempts each (the first try and 2
\* retries), and the drop leaves the status at error.
C9_NineAttempts ==
    /\ [](/\ \A op \in dropped : op.attempts = 9 /\ op.pops = 3
          /\ \A h \in Handlers : Processing(h) => drain[h].op.attempts <= 9)
    /\ [][dropped' # dropped => status' = "error"]_vars

\* an operation was dropped, on its ninth commit attempt
C9_Witness == \E op \in dropped : op.attempts = 9

\* ----------------------------------------------------------------- C10
\* C10: an operation whose commit fails fewer than 2 times and then succeeds
\* is removed from the queue with exactly one commit (or as a no-op), and its
\* processing never sets the status to error: the first failure only backs
\* off, and the success leaves the status alone or ends the drain in idle.
C10_TransientFailure ==
    [][\A h \in Handlers :
         /\ (drain[h].pc = "commit" /\ drain[h].op.attempts = 1 /\ drain'[h] # drain[h])
               => \/ ProcessingSucceeds(h)
                  \/ /\ drain'[h] = [drain[h] EXCEPT !.pc = "sleep"]
                     /\ UNCHANGED <<status, syncQueue, isProcessingQueue, dropped>>
         /\ (ProcessingSucceeds(h) /\ drain[h].op.attempts <= 2)
               => /\ status' \in {status, "idle"}
                  /\ ~InQueue(syncQueue', drain[h].op.id)
                  /\ ~Dropped(dropped', drain[h].op.id)
                  /\ CommitCount(commitLog', drain[h].op.id)
                       + Cardinality({drain[h].op.id} \cap noops') = 1]_vars

\* the commit of an operation failed once and its second attempt is in flight
C10_Witness ==
    \E h \in Handlers :
        /\ drain[h].pc = "commit"
        /\ drain[h].attempt = 1
        /\ drain[h].op.attempts = 2
        /\ status = "syncing"

\* ------------------------------------------------------- steps of a call
\* this step is made by a performManualSync invocation
ManualSyncStep ==
    \E c \in Calls :
        \/ PerformManualSync(c)
        \/ \E r \in StatusResults : ManualStatusDone(c, r)
        \/ \E r \in CallResults : ManualCommitDone(c, r) \/ ManualPushDone(c, r)

\* this step is made by an initialize invocation, its reachability test
\* included
InitializeStep ==
    \E c \in Calls : Initialize(c) \/ \E ok \in BOOLEAN : TestConnectionDone(c, ok)

\* invocation c is made in this step and comes back at once, raising or
\* returning
RaisesAtOnce(c) == calls[c] = "idle" /\ calls'[c] = "raised"
ReturnsAtOnce(c) == calls[c] = "idle" /\ calls'[c] = "returned"

\* ----------------------------------------------------------------- C11
\* C11: error and offline are sticky: a status of error or offline is
\* changed only by a step of initialize or of a manual sync; no file-change
\* event, drain completion, pullFromRemote or pushToRemote changes it.
C11_StickyFailure ==
    [][(status \in {"error", "offline"} /\ status' # status)
          => ManualSyncStep \/ InitializeStep]_vars

\* ----------------------------------------------------------------- C12
\* C12: with no remote configured pullFromRemote and pushToRemote fail fast:
\* the call raises at once, with the status and the last announcement
\* unchanged and no Gateway call started; a call that raises at once is one
\* made with no remote configured.
C12_FailFast ==
    [][\A c \in Calls :
         /\ (~settings.remoteUrl /\ calls[c] = "idle")
               => calls'[c] \notin {"pull", "push"}
         /\ RaisesAtOnce(c)
               => /\ ~settings.remoteUrl
                  /\ UNCHANGED <<status, shown, lastSyncTime>>
                  /\ GatewayInFlight' = GatewayInFlight]_vars

\* a pull or push raised although nothing was ever announced: it failed
\* before its first status change
C12_Witness ==
    /\ \E c \in Calls : calls[c] = "raised"
    /\ shown = NoAnnouncement
    /\ status = "idle"

\* ----------------------------------------------------------------- C13
\* C13: with a remote configured, pullFromRemote and pushToRemote set the
\* status to syncing and start one Gateway call; when that call ends the
\* status becomes idle and the invocation returns, or it becomes error and
\* the invocation raises; no second Gateway call follows.
C13_RemoteCall ==
    [][\A c \in Calls :
         /\ (calls[c] = "idle" /\ calls'[c] \in {"pull", "push"})
               => /\ settings.remoteUrl
                  /\ status' = "syncing"
                  /\ shown'.status = "syncing"
                  /\ GatewayInFlight' = GatewayInFlight + 1
         /\ (calls[c] \in {"pull", "push"} /\ calls'[c] # calls[c])
               => /\ \/ calls'[c] = "idle" /\ status' = "idle"
                     \/ calls'[c] = "raised" /\ status' = "error"
                  /\ shown'.status = status'
                  /\ GatewayInFlight' = GatewayInFlight - 1
         /\ (calls[c] = "raised" /\ calls'[c] # calls[c])
               => calls'[c] = "idle" /\ GatewayInFlight' = GatewayInFlight]_vars

\* a push failed: error is announced and the invocation raises
C13_Witness ==
    /\ \E c \in Calls : calls[c] = "raised"
    /\ status = "error"
    /\ shown = [status |-> "error", message |-> "Push failed"]

\* ----------------------------------------------------------------- C14
\* C14: performManualSync invoked while the status is syncing returns at
\* once: no Gateway call is started, nothing is committed or enqueued, the
\* status is unchanged and nothing is announced; and it never goes on to
\* the status query.
C14_ShortCircuit ==
    [][\A c \in Calls :
         /\ ReturnsAtOnce(c)
               => /\ status = "syncing"
                  /\ UNCHANGED <<status, shown, syncQueue, nextId, commitLog, noops,
                                 lastSyncTime, drain, isProcessingQueue>>
                  /\ GatewayInFlight' = GatewayInFlight
         /\ (status = "syncing" /\ calls[c] = "idle")
               => calls'[c] \notin {"manualStatus", "manualCommit", "manualPush"}]_vars

\* a manual sync came back at once while a drain is committing
C14_Witness ==
    /\ \E c \in Calls : calls[c] = "returned"
    /\ \E h \in Handlers : drain[h].pc = "commit"
    /\ status = "syncing"

\* ----------------------------------------------------------------- C15
\* C15: a manual sync on a clean working tree, however often it is repeated,
\* makes no commit and no push: when the status query reports a clean tree
\* the invocation ends there, with status idle and the message 'No changes
\* to sync', and leaves the queue, the commits and the last sync time as
\* they were; a manual sync invoked right after such an end is not
\* short-circuited and starts by the status query again.
C15_CleanManualSync ==
    [][\A c \in Calls :
         /\ ManualStatusDone(c, "clean")
               => /\ calls'[c] = "idle"
                  /\ status' = "idle"
                  /\ shown' = [status |-> "idle", message |-> "No changes to sync"]
                  /\ UNCHANGED <<commitLog, noops, syncQueue, lastSyncTime, drain>>
                  /\ GatewayInFlight' = GatewayInFlight - 1
         /\ (PerformManualSync(c) /\ shown.message = "No changes to sync"
               /\ status = "idle")
               => calls'[c] = "manualStatus"]_vars

\* a manual sync found a clean tree: nothing was committed, nothing synced
C15_Witness ==
    /\ shown = [status |-> "idle", message |-> "No changes to sync"]
    /\ status = "idle"
    /\ \A c \in Calls : calls[c] = "idle"
    /\ commitLog = <<>>
    /\ lastSyncTime = 0

\* ----------------------------------------------------------------- C16
\* C16: initialize on a vault whose repository does not exist sets the
\* status to offline.
C16_NoRepositoryOffline ==
    [][\A c \in Calls : (~repoExists /\ Initialize(c)) => status' = "offline"]_vars

BurstAccepted ==
    /\ window # <<>>
    /\ \A k \in 1..Len(window) :
          ~ShouldIgnoreFile(window[k].file, excludePatterns) /\ ~window[k].beforeStop

\* ----------------------------------------------------------------- C18
\* C18: a burst of accepted events within one debounce window gives exactly
\* one operation, carrying the file and action of the last event: one
\* timeout is pending for the whole window, with the last event's
\* arguments; an event arriving emits nothing; the timeout firing hands
\* exactly one operation to the callback and ends the window.
C18_OneOperationPerBurst ==
    /\ [](/\ Len(timers) <= 1
          /\ timers # <<>> <=> window # <<>>
          /\ timers # <<>> => timers[1].event = window[Len(window)].event
          /\ BurstAccepted => isActive /\ callback)
    /\ [][/\ eventCount' # eventCount => emitted' = emitted
          /\ (TimerFires /\ BurstAccepted)
                => /\ Len(emitted') = Len(emitted) + 1
                   /\ SubSeq(emitted', 1, Len(emitted)) = emitted
                   /\ emitted'[Len(emitted')].file = window[Len(window)].file
                   /\ emitted'[Len(emitted')].action = window[Len(window)].action
                   /\ timers' = <<>>
                   /\ window' = <<>>]_vars

\* a burst of two accepted events, a create of one note and then a delete
\* of the other, gave one operation, a delete
C18_Witness ==
    /\ Len(emitted) = 1
    /\ emitted[1].burst = 2
    /\ emitted[1].covers = {NoteA, NoteB}
    /\ emitted[1].action = "delete"
    /\ ~emitted[1].stale
    /\ eventCount = 2
    /\ timers = <<>>

\* ----------------------------------------------------------------- C19
\* C19: the operation emitted for a burst covers every accepted event of
\* the burst: processing it stages the file of each of them.
C19_BurstCovered ==
    \A k \in 1..Len(emitted) : emitted[k].covers \subseteq StagedPaths(emitted[k])

\* ----------------------------------------------------------------- C20
\* C20: no operation is ever emitted for an event observed before a stop
\* of the watcher, whatever follows the stop.
C20_NothingAfterStop ==
    \A k \in 1..Len(emitted) : ~emitted[k].stale

\* ----------------------------------------------------------------- C21
\* C21: an event the filter rejects does not act on the window: when the
\* timeout of a window fires on a watcher that was active throughout, and the
\* window holds an accepted event, an operation is emitted.
C21_RejectedEventKeepsWindow ==
    [][(/\ TimerFires
        /\ AcceptedFiles(window) # {}
        /\ \A k \in 1..Len(window) : ~window[k].beforeStop)
          => Len(emitted') = Len(emitted) + 1]_vars

\* ------------------------------------------------------------ the filter
\* pattern, read as an anchored full-path glob, matches path: '*' is any run
\* of characters, '?' any single character, every other character itself
RECURSIVE GlobMatch(_, _)
GlobMatch(pattern, path) ==
    IF pattern = <<>> THEN path = <<>>
    ELSE IF Head(pattern) = "*"
         THEN \/ GlobMatch(Tail(pattern), path)
              \/ path # <<>> /\ GlobMatch(pattern, Tail(path))
    ELSE IF Head(pattern) = "?"
         THEN path # <<>> /\ GlobMatch(Tail(pattern), Tail(path))
    ELSE /\ path # <<>>
         /\ Head(path) = Head(pattern)
         /\ GlobMatch(Tail(pattern), Tail(path))

\* the configured patterns exclude the path
Excluded(path) ==
    \E k \in 1..Len(excludePatterns) : GlobMatch(excludePatterns[k], path)

\* sub occurs in path
Contains(path, sub) ==
    \E i \in 1..(Len(path) - Len(sub) + 1) : SubSeq(path, i, i + Len(sub) - 1) = sub

\* the file name of a path: what follows its last '/'
FileName(path) ==
    LET slashes == {i \in 1..Len(path) : path[i] = "/"}
        last == IF slashes = {} THEN 0
                ELSE CHOOSE i \in slashes : \A j \in slashes : j <= i
    IN  SubSeq(path, last + 1, Len(path))

\* the path lies under a .git directory, at any depth
UnderGit(path) ==
    \/ StartsWith(path, <<".", "g", "i", "t", "/">>)
    \/ Contains(path, <<"/", ".", "g", "i", "t", "/">>)

\* the file name is one of the fixed transient names or has one of the
\* fixed transient suffixes
TransientName(path) ==
    \/ FileName(path) = <<".", "D", "S", "_", "S", "t", "o", "r", "e">>
    \/ FileName(path) = <<"T", "h", "u", "m", "b", "s", ".", "d", "b">>
    \/ EndsWith(FileName(path), <<".", "t", "m", "p">>)
    \/ EndsWith(FileName(path), <<"~">>)
    \/ EndsWith(FileName(path), <<".", "s", "w", "p">>)
    \/ EndsWith(FileName(path), <<".", "s", "w", "o">>)

\* ----------------------------------------------------------------- C22
\* C22: an event for a path that an exclusion pattern matches as an anchored
\* full-path glob produces no operation; and when the timeout fires for a
\* path that no pattern matches and no fixed rule rejects, on an active
\* watcher, the operation is emitted.
C22_ExcludedPathsRejected ==
    /\ [](\A k \in 1..Len(emitted) : ~Excluded(emitted[k].file))
    /\ [][(/\ TimerFires
           /\ isActive
           /\ ~Excluded(timers[1].file)
           /\ ~UnderGit(timers[1].file)
           /\ ~TransientName(timers[1].file))
             => Len(emitted') = Len(emitted) + 1]_vars

\* ----------------------------------------------------------------- C23
\* C23: whatever the configured patterns, no operation is emitted for a path
\* under a .git directory or for a path whose file name is one of the fixed
\* transient names or suffixes, at any directory depth.
C23_FixedRules ==
    \A k \in 1..Len(emitted) :
        ~UnderGit(emitted[k].file) /\ ~TransientName(emitted[k].file)

\* ----------------------------------------------------------------- C24
\* C24: a drain pushes at most once, as its last step: it starts a push only
\* when the commit of an operation returned, the queue is empty, auto-push
\* is on and a remote is configured; when the push ends the drain ends,
\* without processing a further operation or pushing again.
C24_TrailingPush ==
    [][\A h \in Handlers :
         /\ (drain[h].pc # "push" /\ drain'[h].pc = "push")
               => /\ drain[h].pc = "commit"
                  /\ syncQueue = <<>> /\ syncQueue' = <<>>
                  /\ settings.autoPush /\ settings.remoteUrl
         /\ (drain[h].pc = "push" /\ drain'[h] # drain[h])
               => drain'[h].pc = "idle" /\ ~isProcessingQueue']_vars

\* the first drain committed two operations and is now pushing
C24_Witness ==
    /\ \E h \in Handlers : drain[h].pc = "push"
    /\ commitLog = <<1, 2>>
    /\ lastSyncTime = 0
    /\ syncQueue = <<>>

\* ----------------------------------------------------------------- C25
\* C25: a failure of the trailing push does not fail the drain: the drain
\* ends with status idle, announced as 'Sync completed', the guard is
\* released, and nothing is re-queued, dropped or committed again.
C25_PushFailureIgnored ==
    [][\A h \in Handlers :
         TrailingPushDone(h, "fail")
            => /\ status' = "idle"
               /\ shown' = [status |-> "idle", message |-> "Sync completed"]
               /\ ~isProcessingQueue'
               /\ drain'[h].pc = "idle"
               /\ UNCHANGED <<syncQueue, commitLog, noops, dropped>>]_vars

\* the trailing push of a drain that committed an operation is in flight,
\* while the status is still syncing
C25_Witness ==
    /\ \E h \in Handlers : drain[h].pc = "push"
    /\ commitLog = <<1>>
    /\ status = "syncing"
    /\ isProcessingQueue

\* ----------------------------------------------------------------- C26
\* C26: when the commit of an operation returns with nothing staged, the
\* operation is done without a commit: it is not in the queue any more, it
\* is not dropped, its processing is over, and the step does not set the
\* status to error.
C26_NothingStaged ==
    [][\A h \in Handlers :
         CommitSucceeds(h, "nothing")
            => /\ commitLog' = commitLog
               /\ drain[h].op.id \in noops'
               /\ ~InQueue(syncQueue', drain[h].op.id)
               /\ ~Dropped(dropped', drain[h].op.id)
               /\ drain'[h].op.id # drain[h].op.id
               /\ status' = "error" => UNCHANGED <<status, shown>>]_vars

\* an operation completed with nothing staged, on its first attempt, and
\* the drain ended normally
C26_Witness ==
    /\ 1 \in noops
    /\ commitLog = <<>>
    /\ dropped = {}
    /\ syncQueue = <<>>
    /\ status = "idle"
    /\ shown.message = "Sync completed"

\* ----------------------------------------------------------------- C27
\* C27: in every announcement each subscriber registered when it started is
\* called exactly once, in registration order, whatever the subscribers
\* remove from inside their callbacks: when forEach is over, the subscribers
\* called are those registered at the start, in that order.
C27_EachSubscriberOnce ==
    (announce.active /\ announce.k = announce.len)
        => announce.called = announce.atStart

\* ----------------------------------------------------------------- C28
\* C28: no stale status: while an announcement runs, the status is already
\* the announced one; and when no announcement runs, every current
\* subscriber that was registered when the last announcement started was
\* last called with the current status.
C28_NoStaleStatus ==
    /\ announce.active => status = shown.status
    /\ ~announce.active
         => \A i \in 1..Len(statusCallbacks) :
               IndexOf(announce.atStart, statusCallbacks[i]) > 0
                  => delivered[statusCallbacks[i]] = status

\* ----------------------------------------------------------------- C29
\* C29: a drain keeps the configuration it started under: it makes the
\* trailing push exactly when auto-push was on and a remote configured at
\* the time the drain started.
C29_SnapshotDecidesPush ==
    [][\A h \in Handlers :
         /\ (drain[h].pc = "commit" /\ drain'[h].pc = "push")
               => snapshot.autoPush /\ snapshot.remoteUrl
         /\ (drain[h].pc = "commit" /\ drain'[h].pc = "idle" /\ status' = "idle")
               => ~(snapshot.autoPush /\ snapshot.remoteUrl)]_vars

\* ----------------------------------------------------------------- C30
\* C30: a change of the debounce delay is seen by the aggregator without a
\* restart: every pending window was opened with the delay the settings
\* held when its event arrived.
C30_DelayFollowsSettings ==
    \A k \in 1..Len(timers) : timers[k].delay = timers[k].configured

\* str with every occurrence of pat replaced by value
RECURSIVE SubstituteAll(_, _, _)
SubstituteAll(str, pat, value) ==
    IF str = <<>> THEN <<>>
    ELSE IF OccursAt(str, pat, 1)
         THEN value \o SubstituteAll(SubSeq(str, Len(pat) + 1, Len(str)), pat, value)
         ELSE <<Head(str)>> \o SubstituteAll(Tail(str), pat, value)

\* the template with its placeholders filled in
Filled(t, action, filename) ==
    SubstituteAll(SubstituteAll(t, ActionPlaceholder, action), FilenamePlaceholder, filename)

\* the commits created for operation i, among the commit calls
CommitsOf(i) == {k \in 1..Len(commitCalls) : commitCalls[k].id = i /\ commitCalls[k].committed}

\* operation i is the creation of note.md
CreatesNoteMd(i) == enqueued[i] = [file |-> NoteMd, action |-> "create"]

\* ----------------------------------------------------------------- C31
\* C31: end to end, the creation of note.md, once its window has elapsed and
\* its commit call has returned with a commit, has exactly one commit, whose
\* message is the configured template with {action} replaced by Created and
\* {filename} by note.md; and with auto-push on and a remote configured the
\* drain goes on to push it.
C31_EndToEnd ==
    /\ [](\A k \in 1..Len(commitCalls) :
            (CreatesNoteMd(commitCalls[k].id) /\ commitCalls[k].committed)
               => /\ Cardinality(CommitsOf(commitCalls[k].id)) = 1
                  /\ commitCalls[k].message
                        = Filled(template, GetActionDisplayName("create"), NoteMd))
    /\ [](template = DefaultTemplate
            => GitGenerateCommitMessage(<<"u", "p", "d", "a", "t", "e", "d">>, MyNoteMd)
                  = <<"U", "p", "d", "a", "t", "e", "d", ":", " ", "m", "y", "-", "n", "o", "t", "e", ".", "m", "d">>)
    /\ [][\A h \in Handlers :
            (/\ drain[h].pc = "commit"
             /\ Len(commitCalls') = Len(commitCalls) + 1
             /\ syncQueue = <<>>
             /\ settings.autoPush /\ settings.remoteUrl)
               => drain'[h].pc = "push"]_vars

\* ----------------------------------------------------------------- C32
\* C32: stopping the watcher leaves the drain in flight alone: the call of
\* stop changes nothing of the coordinator, and a drain that ends while the
\* watcher is stopped, so after a stop() called during it, ends in idle or
\* error with the guard released and has processed every operation that
\* was in the queue: none is left that was never taken off the queue.
C32_StopKeepsDrain ==
    /\ [][(isActive /\ ~isActive') => UNCHANGED coordinatorVars]_vars
    /\ [][\A h \in Handlers :
            (drain[h].pc # "idle" /\ drain'[h].pc = "idle" /\ ~isActive)
               => /\ status' \in {"idle", "error"}
                  /\ ~isProcessingQueue'
                  /\ \A k \in 1..Len(syncQueue') : syncQueue'[k].pops > 0]_vars

\* a manual sync, a pull or a push is suspended at a Gateway call
DirectCallInFlight ==
    \E c \in Calls : calls[c] \in {"manualStatus", "manualCommit", "manualPush", "pull", "push"}

\* ----------------------------------------------------------------- C33
\* C33: the status is a projection of the activity: while a drain, a manual
\* sync, a pull or a push is in flight the status is syncing, and so the
\* status is idle only when none of them is in flight.
C33_StatusIsProjection ==
    (ActiveDrains # {} \/ DirectCallInFlight) => status = "syncing"

\* ----------------------------------------------------------------- C34
\* C34: the commit call of a delete operation stages the whole tree; the
\* commit call of an operation with any other action stages the path of
\* that operation's file and nothing else.
C34_StagedPaths ==
    \A k \in 1..Len(commitCalls) :
        LET operation == enqueued[commitCalls[k].id] IN
        IF operation.action = "delete"
        THEN commitCalls[k].added = {WholeTree}
        ELSE commitCalls[k].added = {operation.file}

\* a delete and another operation on a file in a folder were both committed
C34_Witness ==
    /\ \E k \in 1..Len(commitCalls) :
          enqueued[commitCalls[k].id].action = "delete" /\ commitCalls[k].added = {WholeTree}
    /\ \E k \in 1..Len(commitCalls) :
          enqueued[commitCalls[k].id].action = "rename" /\ commitCalls[k].added = {OddName}

\* ----------------------------------------------------------------- C35
\* C35: RetryHelper.retry(op, maxRetries, baseDelay) invokes op at most
\* maxRetries + 1 times and never again after a success; it returns the
\* result of the first successful invocation; when all maxRetries + 1
\* invocations fail it raises the error of the last one; and it waits
\* baseDelay * 2^i after the i-th failed attempt (from 0) that a retry
\* follows, with no wait after the final failure.
C35_RetryHelper ==
    /\ Len(retry.invoked) <= retry.maxRetries + 1
    /\ \A i \in 1..(Len(retry.invoked) - 1) : retry.invoked[i] = "fail"
    /\ \A i \in 1..Len(retry.waits) : retry.waits[i] = retry.baseDelay * Pow2(i - 1)
    /\ retry.pc = "returned"
         => /\ retry.invoked[Len(retry.invoked)] = "ok"
            /\ retry.result = [value |-> Len(retry.invoked)]
            /\ Len(retry.waits) = Len(retry.invoked) - 1
    /\ retry.pc = "raised"
         => /\ Len(retry.invoked) = retry.maxRetries + 1
            /\ \A i \in 1..Len(retry.invoked) : retry.invoked[i] = "fail"
            /\ retry.result = [error |-> Len(retry.invoked)]
            /\ Len(retry.waits) = retry.maxRetries

\* every invocation failed, with the waits 1000, 2000 and 4000 between them
C35_Witness ==
    /\ retry.pc = "raised"
    /\ retry.maxRetries = 3
    /\ retry.waits = <<1000, 2000, 4000>>

\* ----------------------------------------------------------------- C36
\* C36: the drain guard is held exactly while a drain is running: it is
\* released when the drain ends, normally, by a failed operation or after a
\* failed trailing push; and so an operation enqueued while no drain is
\* running starts a new drain.
C36_GuardReleased ==
    /\ [](isProcessingQueue <=> ActiveDrains # {})
    /\ [][(nextId' = nextId + 1 /\ ActiveDrains = {})
            => (isProcessingQueue' /\ \E h \in Handlers : drain'[h].pc = "commit")]_vars

\* a new drain is processing an operation that an earlier drain ended on
\* by a failure
C36_Witness ==
    /\ isProcessingQueue
    /\ \E h \in Handlers : drain[h].pc = "commit" /\ drain[h].op.retries > 0

\* ----------------------------------------------------------------- C37
\* C37: with every Gateway call terminating, the status never stays syncing
\* forever: whenever it is syncing it is later idle or error, under every
\* interleaving of drains, manual syncs, pulls and pushes.
C37_SyncingEnds == (status = "syncing") ~> (status \in {"idle", "error"})

\* the status is syncing with a drain and a direct call both in flight
C37_Witness ==
    /\ status = "syncing"
    /\ ActiveDrains # {}
    /\ DirectCallInFlight

\* ----------------------------------------------------------------- C38
\* C38: a file-change event the watcher hands to handleFileChange while the
\* status is error or offline is discarded: the queue, the status, the
\* last-sync time and every other field of the coordinator are unchanged,
\* so no subscriber is told anything, no drain starts and no Gateway call
\* is made.
C38_DiscardedWhenFailed ==
    [][(Len(emitted') = Len(emitted) + 1 /\ status \in {"error", "offline"})
          => UNCHANGED coordinatorVars]_vars

\* the first event started a drain that ended in error, the second was
\* handed over and discarded
C38_Witness ==
    /\ status = "error"
    /\ Len(emitted) = 2
    /\ nextId = 1
    /\ ActiveDrains = {}

\* ----------------------------------------------------------------- C39
\* C39: the last-sync time changes only on success: it never decreases, a
\* step that changes it sets the status to idle, a step that sets the
\* status to error (a drain, a manual sync, a pull or a push that fails)
\* leaves it unchanged, and so does a manual sync that ends at its status
\* query, on a clean tree, or that is short-circuited.
C39_LastSyncOnlyOnSuccess ==
    [][/\ lastSyncTime' >= lastSyncTime
       /\ lastSyncTime' # lastSyncTime => status' = "idle"
       /\ status' = "error" => lastSyncTime' = lastSyncTime
       /\ (\E c \in Calls : calls[c] = "manualStatus" /\ calls'[c] = "idle")
             => lastSyncTime' = lastSyncTime
       /\ (\E c \in Calls : PerformManualSync(c) /\ status = "syncing")
             => lastSyncTime' = lastSyncTime]_vars

\* a manual sync has failed and no sync has succeeded yet
C39_Witness ==
    /\ status = "error"
    /\ shown.message = "Manual sync failed"
    /\ lastSyncTime = 0

\* ----------------------------------------------------------------- C40
\* C40: after any sequence of start and stop calls the watcher holds
\* exactly four registered handlers, one each for create, modify, delete
\* and rename, when it is active, and none when it is stopped: a start on
\* an active watcher leaves no duplicate.
C40_FourHandlers ==
    /\ isActive => (Len(eventRefs) = 4 /\ \A kind \in FileChangeActions :
                       Cardinality({k \in 1..Len(eventRefs) : eventRefs[k] = kind}) = 1)
    /\ ~isActive => eventRefs = <<>>

\* the watcher was started again, by start on an active watcher or after a
\* stop, with an event of before still pending
C40_Witness ==
    /\ isActive
    /\ Len(eventRefs) = 4
    /\ \E k \in 1..Len(window) : window[k].beforeStop

====
